---- MODULE Spec2Model ----
(***************************************************************************)
(* Domain Shared Contacts client (markxp/contacts).                        *)
(*                                                                         *)
(* Two layers are modelled:                                                *)
(*   - the wire codec of src/encoding.go (MarshalXML / UnmarshalXML of the *)
(*     contact and of its sub-structures), as operators over XML elements; *)
(*   - the service of src/unnamed/part_000 (Create/Get/List/Update/Delete),*)
(*     as a state machine that issues HTTP requests and consumes the       *)
(*     responses of an arbitrary transport.                                *)
(*                                                                         *)
(* Conventions.                                                            *)
(*   - An XML element is a record [name, attrs, children, text]; a name is *)
(*     [space, local]; an attribute is [name, value].                      *)
(*   - A Go string read from or written to character data is a sequence of *)
(*     tokens (a token is a whitespace token or a non-blank word), so that *)
(*     strings.TrimSpace is computed, not assumed.  The empty string is    *)
(*     <<>>.  Attribute values, URLs and tags are atomic strings.          *)
(*   - A Go pointer is a sequence of length 0 (nil) or 1.                  *)
(***************************************************************************)
EXTENDS Integers, Sequences, FiniteSets, TLC

VARIABLES
    svc,      \* the service struct: endpoint, projection
    pc,       \* position of the running call
    call,     \* the running call and its arguments
    reqs,     \* requests handed to the base transport, in order
    resps,    \* what the transport answered, in order
    ret,      \* what the call returned
    lret,     \* ListContacts: the slice ret
    lreq,     \* ListContacts: the loop variable req (a pointer)
    cancelled,\* whether the context the caller passed is done
    wire,     \* requests that reached the remote service, in order
    parked,   \* the call of a second goroutine while it is not scheduled
    cpc,      \* codec harness: position
    cin,      \* codec harness: the value given to the encoder
    cwire,    \* codec harness: the encoded element
    cout      \* codec harness: the value the decoder produced

vars ==
    <<svc, pc, call, reqs, resps, ret, lret, lreq, cancelled, wire, parked,
      cpc, cin, cwire, cout>>

svcVars == <<svc, pc, call, reqs, resps, ret, lret, lreq, cancelled, wire, parked>>

codecVars == <<cpc, cin, cwire, cout>>

(***************************************************************************)
(* XML elements                                                            *)
(***************************************************************************)
NSAtom == "http://www.w3.org/2005/Atom"

NSGD == "http://schemas.google.com/g/2005"

XName(space, local) == [space |-> space, local |-> local]

Attr(local, value) == [name |-> XName("", local), value |-> value]

El(name, attrs, children, text) ==
    [name |-> name, attrs |-> attrs, children |-> children, text |-> text]

\* encoding/xml omitempty on an attribute of type string
OmitEmptyAttrs(as) == SelectSeq(as, LAMBDA a : a.value # "")

\* encoding/xml omitempty on a child element holding a string
OmitEmptyEls(es) == SelectSeq(es, LAMBDA e : e.text # <<>>)

\* strconv.FormatBool, with false standing for "omitted" under omitempty
FormatBool(b) == IF b THEN "true" ELSE ""

\* strconv.ParseBool on the values a document of the model carries
ParseBool(s) == s \in {"1", "t", "T", "TRUE", "true", "True"}

\* value of the attribute matched by a tag `xml:"local,attr"` ("" when absent)
AttrVal(el, local) ==
    LET m == SelectSeq(el.attrs, LAMBDA a : a.name.local = local)
    IN  IF m = <<>> THEN "" ELSE m[Len(m)].value

\* children matched by a tag `xml:"local"` (any name space)
ChildrenOf(el, local) == SelectSeq(el.children, LAMBDA e : e.name.local = local)

\* children matched by a tag `xml:"space local"`
ChildrenNS(el, space, local) ==
    SelectSeq(el.children, LAMBDA e : e.name.local = local /\ e.name.space = space)

\* character data of the child matched by `xml:"local"` (<<>> when absent)
ChildText(el, local) ==
    LET m == ChildrenOf(el, local)
    IN  IF m = <<>> THEN <<>> ELSE m[Len(m)].text

ChildTextNS(el, space, local) ==
    LET m == ChildrenNS(el, space, local)
    IN  IF m = <<>> THEN <<>> ELSE m[Len(m)].text

(***************************************************************************)
(* strings.TrimSpace over token sequences                                  *)
(***************************************************************************)
WhiteSpace == {" ", "\n", "\t"}

RECURSIVE TrimLeft(_)
TrimLeft(s) ==
    IF s = <<>> THEN <<>>
    ELSE IF Head(s) \in WhiteSpace THEN TrimLeft(Tail(s)) ELSE s

RECURSIVE TrimRight(_)
TrimRight(s) ==
    IF s = <<>> THEN <<>>
    ELSE IF s[Len(s)] \in WhiteSpace THEN TrimRight(SubSeq(s, 1, Len(s) - 1)) ELSE s

TrimSpace(s) == TrimRight(TrimLeft(s))

(***************************************************************************)
(* gd:name                                                                 *)
(***************************************************************************)
GDChild(local, text) == El(XName("gd", local), <<>>, <<>>, text)

MarshalGDName(n) ==
    El(XName("gd", "name"), <<>>,
       OmitEmptyEls(<<GDChild("givenName", n.GivenName),
                      GDChild("additionalName", n.AdditionalName),
                      GDChild("familyName", n.FamilyName),
                      GDChild("namePrefix", n.Prefix),
                      GDChild("nameSuffix", n.Suffix),
                      GDChild("fullName", TrimSpace(n.FullName))>>),
       <<>>)

UnmarshalGDName(el) ==
    [GivenName      |-> ChildText(el, "givenName"),
     AdditionalName |-> ChildText(el, "additionalName"),
     FamilyName     |-> ChildText(el, "familyName"),
     Prefix         |-> ChildText(el, "namePrefix"),
     Suffix         |-> ChildText(el, "nameSuffix"),
     FullName       |-> TrimSpace(ChildText(el, "fullName"))]

ZeroGDName ==
    [GivenName |-> <<>>, AdditionalName |-> <<>>, FamilyName |-> <<>>,
     Prefix |-> <<>>, Suffix |-> <<>>, FullName |-> <<>>]

(***************************************************************************)
(* gd:email                                                                *)
(***************************************************************************)
MarshalGDEmail(m) ==
    El(XName("gd", "email"),
       <<Attr("address", m.Address)>>
         \o OmitEmptyAttrs(<<Attr("rel", m.Related),
                             Attr("label", m.Label),
                             Attr("primary", FormatBool(m.Primary)),
                             Attr("displayName", m.DisplayName)>>),
       <<>>, <<>>)

UnmarshalGDEmail(el) ==
    [Address     |-> AttrVal(el, "address"),
     Related     |-> AttrVal(el, "rel"),
     Label       |-> AttrVal(el, "label"),
     Primary     |-> ParseBool(AttrVal(el, "primary")),
     DisplayName |-> AttrVal(el, "displayName")]

ZeroGDEmail ==
    [Address |-> "", Related |-> "", Label |-> "", Primary |-> FALSE, DisplayName |-> ""]

(***************************************************************************)
(* gd:phoneNumber                                                          *)
(***************************************************************************)
MarshalGDPhoneNumber(n) ==
    El(XName("gd", "phoneNumber"),
       OmitEmptyAttrs(<<Attr("rel", n.Related),
                        Attr("label", n.Label),
                        Attr("uri", n.URI),
                        Attr("primary", FormatBool(n.Primary))>>),
       <<>>, TrimSpace(n.DialNumber))

UnmarshalGDPhoneNumber(el) ==
    [Related    |-> AttrVal(el, "rel"),
     Label      |-> AttrVal(el, "label"),
     URI        |-> AttrVal(el, "uri"),
     Primary    |-> ParseBool(AttrVal(el, "primary")),
     DialNumber |-> TrimSpace(el.text)]

ZeroGDPhoneNumber ==
    [Related |-> "", Label |-> "", URI |-> "", Primary |-> FALSE, DialNumber |-> <<>>]

(***************************************************************************)
(* gd:im                                                                   *)
(***************************************************************************)
MarshalGDIM(im) ==
    El(XName("gd", "im"),
       <<Attr("address", im.Address)>>
         \o OmitEmptyAttrs(<<Attr("label", im.Label),
                             Attr("rel", im.Related),
                             Attr("protocol", im.Protocol),
                             Attr("primary", FormatBool(im.Primary))>>),
       <<>>, <<>>)

UnmarshalGDIM(el) ==
    [Address  |-> AttrVal(el, "address"),
     Label    |-> AttrVal(el, "label"),
     Related  |-> AttrVal(el, "rel"),
     Protocol |-> AttrVal(el, "protocol"),
     Primary  |-> ParseBool(AttrVal(el, "primary"))]

ZeroGDIM ==
    [Address |-> "", Label |-> "", Related |-> "", Protocol |-> "", Primary |-> FALSE]

(***************************************************************************)
(* gd:structuredPostalAddress                                              *)
(***************************************************************************)
MarshalGDStructuredPostalAddress(a) ==
    El(XName("gd", "structuredPostalAddress"),
       OmitEmptyAttrs(<<Attr("rel", a.Related),
                        Attr("mailClass", a.MailClass),
                        Attr("usage", a.Usage),
                        Attr("label", a.Label),
                        Attr("primary", FormatBool(a.Primary))>>),
       OmitEmptyEls(<<GDChild("agent", a.Agent),
                      GDChild("housename", a.HouseName),
                      GDChild("pobox", a.Pobox),
                      GDChild("neighborhood", a.Neighborhood),
                      GDChild("city", a.City),
                      GDChild("street", a.Street),
                      GDChild("region", a.Region),
                      GDChild("subregion", a.SubRegion),
                      GDChild("postcode", a.PostCode),
                      GDChild("country", a.Country),
                      GDChild("formattedAddress", a.FormattedAddress)>>),
       <<>>)

\* the decoded attributes and children, struct decodedGDStructuredPostalAddress
DecodedAddress(el) ==
    [Related          |-> AttrVal(el, "rel"),
     MailClass        |-> AttrVal(el, "mailClass"),
     Usage            |-> AttrVal(el, "usage"),
     Label            |-> AttrVal(el, "label"),
     Primary          |-> ParseBool(AttrVal(el, "primary")),
     Agent            |-> ChildText(el, "agent"),
     HouseName        |-> ChildText(el, "housename"),
     Pobox            |-> ChildText(el, "pobox"),
     Neighborhood     |-> ChildText(el, "neighborhood"),
     City             |-> ChildText(el, "city"),
     Street           |-> ChildText(el, "street"),
     Region           |-> ChildText(el, "region"),
     SubRegion        |-> ChildText(el, "subregion"),
     PostCode         |-> ChildText(el, "postcode"),
     Country          |-> ChildText(el, "country"),
     FormattedAddress |-> ChildText(el, "formattedAddress")]

\* the assignments to the receiver a, in the order of the source: a.Region is
\* written twice (first from o.Related), a.Related is never written.
AssignAddress(a, o) ==
    [[a EXCEPT !.Region = IF o.Related = "" THEN <<>> ELSE <<o.Related>>]
        EXCEPT     !.MailClass = o.MailClass,
                   !.Usage = o.Usage,
                   !.Label = o.Label,
                   !.Primary = o.Primary,
                   !.Agent = o.Agent,
                   !.HouseName = o.HouseName,
                   !.Pobox = o.Pobox,
                   !.Neighborhood = o.Neighborhood,
                   !.City = o.City,
                   !.Street = o.Street,
                   !.Region = o.Region,
                   !.SubRegion = o.SubRegion,
                   !.PostCode = o.PostCode,
                   !.Country = o.Country,
                   !.FormattedAddress = o.FormattedAddress]

\* GDStructuredPostalAddress.UnmarshalXML into the receiver a
UnmarshalGDStructuredPostalAddress(a, el) == AssignAddress(a, DecodedAddress(el))

ZeroGDStructuredPostalAddress ==
    [Related |-> "", MailClass |-> "", Usage |-> "", Label |-> "", Primary |-> FALSE,
     Agent |-> <<>>, HouseName |-> <<>>, Pobox |-> <<>>, Neighborhood |-> <<>>,
     City |-> <<>>, Street |-> <<>>, Region |-> <<>>, SubRegion |-> <<>>,
     PostCode |-> <<>>, Country |-> <<>>, FormattedAddress |-> <<>>]

(***************************************************************************)
(* gd:extendedProperty and atom:link                                       *)
(***************************************************************************)
MarshalGDExtendedProperty(p) ==
    El(XName("gd", "extendedProperty"),
       <<Attr("name", p.Name)>>
         \o OmitEmptyAttrs(<<Attr("value", p.Value), Attr("realm", p.Realm)>>),
       <<>>, <<>>)

UnmarshalGDExtendedProperty(el) ==
    [Name  |-> AttrVal(el, "name"),
     Value |-> AttrVal(el, "value"),
     Realm |-> AttrVal(el, "realm")]

UnmarshalLink(el) ==
    [Related |-> AttrVal(el, "rel"),
     Type    |-> AttrVal(el, "type"),
     Href    |-> AttrVal(el, "href")]

(***************************************************************************)
(* ContactKind                                                             *)
(***************************************************************************)
contactTerm == "http://schemas.google.com/contact/2008#contact"

kindScheme == "http://schemas.google.com/g/2005#kind"

relPhoto == "http://schemas.google.com/contacts/2008/rel#photo"

\* [f(s[1]), ..., f(s[n])]
MapSeq(s, F(_)) == IF s = <<>> THEN <<>> ELSE [i \in 1..Len(s) |-> F(s[i])]

ZeroContactKind ==
    [Name |-> ZeroGDName, Email |-> <<>>, PhoneNumber |-> <<>>,
     StructuredPostalAddress |-> <<>>, IM |-> <<>>, ExtendedProperty |-> <<>>,
     deleted |-> FALSE, editLink |-> "", photoLink |-> "", selfLink |-> "",
     id |-> <<>>, updated |-> <<>>, content |-> <<>>, etag |-> ""]

\* href of the last link whose rel is `rel`, or `prior` when there is none:
\* the range loop over o.Link assigns on every match.
LinkHref(links, rel, prior) ==
    LET m == SelectSeq(links, LAMBDA l : l.Related = rel)
    IN  IF m = <<>> THEN prior ELSE m[Len(m)].Href

\* c.ExtendedProperty[pair.Name] = pair.Value over the pairs in document order:
\* a later pair overwrites an earlier one of the same name.
MapOfPairs(pairs) ==
    LET keys == {pairs[i].Name : i \in DOMAIN pairs}
        last(k) == CHOOSE i \in DOMAIN pairs :
                      /\ pairs[i].Name = k
                      /\ \A j \in DOMAIN pairs : pairs[j].Name = k => j <= i
    IN  [k \in keys |-> pairs[last(k)].Value]

\* the fields of struct decodeContactKind read from the element
DecodeContactKind(el) ==
    LET cats == ChildrenOf(el, "category")
        dels == ChildrenNS(el, NSGD, "deleted")
        nams == ChildrenNS(el, NSGD, "name")
    IN  [Etag     |-> AttrVal(el, "etag"),
         Term     |-> IF cats = <<>> THEN "" ELSE AttrVal(cats[Len(cats)], "term"),
         ID       |-> ChildText(el, "id"),
         Updated  |-> ChildText(el, "updated"),
         Content  |-> ChildText(el, "content"),
         Name     |-> IF nams = <<>> THEN ZeroGDName ELSE UnmarshalGDName(nams[Len(nams)]),
         Email    |-> MapSeq(ChildrenNS(el, NSGD, "email"), UnmarshalGDEmail),
         Deleted  |-> IF dels = <<>> THEN FALSE
                      ELSE LET t == TrimSpace(dels[Len(dels)].text)
                           IN  t # <<>> /\ ParseBool(t[1]),
         PhoneNumber |-> MapSeq(ChildrenNS(el, NSGD, "phoneNumber"), UnmarshalGDPhoneNumber),
         StructuredPostalAddress |->
             MapSeq(ChildrenNS(el, NSGD, "structuredPostalAddress"),
                    LAMBDA e : UnmarshalGDStructuredPostalAddress(ZeroGDStructuredPostalAddress, e)),
         Link     |-> MapSeq(ChildrenNS(el, NSAtom, "link"), UnmarshalLink),
         ExtendedProperty |->
             MapSeq(ChildrenNS(el, NSGD, "extendedProperty"), UnmarshalGDExtendedProperty),
         IM       |-> MapSeq(ChildrenNS(el, NSGD, "im"), UnmarshalGDIM)]

\* the assignments of ContactKind.UnmarshalXML to the receiver c, from the
\* decoded struct o
AssignedContactKind(c, o) ==
    [Name |-> o.Name,
     Email |-> o.Email,
     IM |-> o.IM,
     PhoneNumber |-> o.PhoneNumber,
     StructuredPostalAddress |-> o.StructuredPostalAddress,
     photoLink |-> LinkHref(o.Link, relPhoto, c.photoLink),
     selfLink |-> LinkHref(o.Link, "self", c.selfLink),
     editLink |-> LinkHref(o.Link, "edit", c.editLink),
     deleted |-> o.Deleted,
     id |-> o.ID,
     updated |-> o.Updated,
     content |-> o.Content,
     etag |-> o.Etag,
     ExtendedProperty |-> MapOfPairs(o.ExtendedProperty)]

\* faulty variant: the category term is not compared with the contact term
AssignContactKindUnguarded(c, name, o) ==
        IF name # XName(NSAtom, "entry") THEN [ok |-> FALSE, c |-> c]
        ELSE [ok |-> TRUE, c |-> AssignedContactKind(c, o)]

\* ContactKind.UnmarshalXML after d.DecodeElement(&o, &start): the check of the
\* XMLName tag (an Atom entry), the category guard, the assignments to c.
AssignContactKind(c, name, o) ==
        IF name # XName(NSAtom, "entry") THEN [ok |-> FALSE, c |-> c]
        ELSE IF o.Term # contactTerm THEN [ok |-> FALSE, c |-> c]
        ELSE [ok |-> TRUE, c |-> AssignedContactKind(c, o)]

\* ContactKind.UnmarshalXML into the receiver c: [ok, c]
UnmarshalContactKind(c, el) == AssignContactKind(c, el.name, DecodeContactKind(el))

\* n zero values followed by s: make([]T, len(s)) and then append(o, s...)
ZerosThen(zero, s) == IF s = <<>> THEN <<>> ELSE [i \in 1..Len(s) |-> zero] \o s

ZeroGDExtendedProperty == [Name |-> "", Value |-> "", Realm |-> ""]

\* faulty variant: the entry also carries the id and the version tag
MarshalContactKindWithId(c, order) ==
    El(XName("", "entry"),
       <<Attr("xmlns:atom", NSAtom), Attr("xmlns:gd", NSGD), Attr("gd:etag", c.etag)>>,
       <<El(XName("", "id"), <<>>, <<>>, c.id), MarshalGDName(c.Name)>>
         \o MapSeq(c.Email, MarshalGDEmail),
       <<>>)

\* ContactKind.MarshalXML.  `order` is the order in which the range over the
\* map c.ExtendedProperty yields its keys (unspecified in Go).
MarshalContactKind(c, order) ==
    LET oEmail == c.Email
        oPhone == ZerosThen(ZeroGDPhoneNumber, c.PhoneNumber)
        oAddr  == ZerosThen(ZeroGDStructuredPostalAddress, c.StructuredPostalAddress)
        oIM    == ZerosThen(ZeroGDIM, c.IM)
        oExt   == ZerosThen(ZeroGDExtendedProperty,
                            MapSeq(order, LAMBDA k : [Name |-> k,
                                                      Value |-> c.ExtendedProperty[k],
                                                      Realm |-> ""]))
    IN  El(XName("", "entry"),
           <<Attr("xmlns:atom", NSAtom), Attr("xmlns:gd", NSGD)>>,
           <<MarshalGDName(c.Name)>>
             \o MapSeq(oEmail, MarshalGDEmail)
             \o MapSeq(oPhone, MarshalGDPhoneNumber)
             \o MapSeq(oAddr, MarshalGDStructuredPostalAddress)
             \o <<El(XName("", "content"), <<>>, <<>>, c.content)>>
             \o <<El(XName("", "category"),
                     <<Attr("scheme", kindScheme), Attr("term", contactTerm)>>,
                     <<>>, <<>>)>>
             \o MapSeq(oExt, MarshalGDExtendedProperty)
             \o MapSeq(oIM, MarshalGDIM),
           <<>>)

\* the orders in which a range over a map with key set S may run
Orders(S) == {o \in [1..Cardinality(S) -> S] : \A i, j \in DOMAIN o : o[i] = o[j] => i = j}

\* ContactKind.Clone
Clone(c) ==
    [Name |-> c.Name,
     Email |-> ZerosThen(ZeroGDEmail, c.Email),
     PhoneNumber |-> ZerosThen(ZeroGDPhoneNumber, c.PhoneNumber),
     StructuredPostalAddress |->
         ZerosThen(ZeroGDStructuredPostalAddress, c.StructuredPostalAddress),
     IM |-> c.IM,
     ExtendedProperty |-> c.ExtendedProperty,
     deleted |-> c.deleted,
     editLink |-> c.editLink,
     photoLink |-> c.photoLink,
     selfLink |-> c.selfLink,
     id |-> c.id,
     updated |-> c.updated,
     content |-> c.content,
     etag |-> c.etag]

(***************************************************************************)
(* HTTP: requests, the wrapping transport, responses                       *)
(***************************************************************************)
StatusOK == 200

StatusCreated == 201

StatusNotModified == 304

StatusBadRequest == 400

StatusUnauthorized == 401

StatusForbidden == 403

StatusNotFound == 404

StatusConflict == 409

\* a URL: the part before '?' and the query parameters after it
URL(path, query) == [path |-> path, query |-> query]

NoBody == El(XName("", ""), <<>>, <<>>, <<>>)

\* http.NewRequestWithContext(ctx, method, url, body): no header set yet; every
\* call site passes the context of the caller, named "ctx" here
NewRequest(method, url, body) ==
    [method |-> method, url |-> url, header |-> {}, body |-> body, ctx |-> "ctx"]

\* http.Header.Set
HeaderSet(req, key, value) ==
    [req EXCEPT !.header = {h \in @ : h.key # key} \cup {[key |-> key, value |-> value]}]

HasHeader(req, key) == \E h \in req.header : h.key = key

HeaderGet(req, key) ==
    IF HasHeader(req, key) THEN (CHOOSE h \in req.header : h.key = key).value ELSE ""

\* trapnsport.RoundTrip: the request as it reaches the base transport
RoundTrip(req) ==
    LET r == HeaderSet(req, "GData-Version", "3.0")
    IN  IF req.method \in {"POST", "PUT"}
        THEN HeaderSet(r, "Content-Type", "application/atom+xml")
        ELSE r

\* errors: nil, or a kind with the HTTP status it carries (0 when none)
NoError == [kind |-> "nil", status |-> 0]

Error(kind, status) == [kind |-> kind, status |-> status]

\* xml.Decoder.Decode of a response body into a ContactKind: [ok, c]
DecodeContact(body) ==
    IF body.kind # "xml" THEN [ok |-> FALSE, c |-> ZeroContactKind]
    ELSE UnmarshalContactKind(ZeroContactKind, body.root)

\* `return &ct, nil` after a successful Decode, `return nil, err` otherwise
DecodedResult(d) ==
    IF d.ok THEN [contact |-> <<d.c>>, contacts |-> <<>>, st |-> <<>>,
                  err |-> NoError, panicked |-> FALSE]
    ELSE [contact |-> <<>>, contacts |-> <<>>, st |-> <<>>,
          err |-> Error("decode", 0), panicked |-> FALSE]

(***************************************************************************)
(* service                                                                 *)
(***************************************************************************)
endpointBaseURL == "https://www.google.com/m8/feeds/contacts/"

setDefaultProjection(p) == IF p = "" THEN "full" ELSE p

NewService(domain, defaultProjection) ==
    [endpoint   |-> endpointBaseURL \o domain,
     projection |-> setDefaultProjection(defaultProjection)]

getPojection(s, p) == IF p # "" THEN p ELSE s.projection

\* faulty variant: a call stores the projection it resolved in the service
serviceCachingProjection(s, projection) ==
    [s EXCEPT !.projection = getPojection(s, projection)]

\* the service struct once a method of *service has run with `projection`:
\* no method assigns to a field of its receiver
serviceAfter(s, projection) == s

\* what a call returns: contact (*ContactKind), contacts ([]*ContactKind, nil
\* or a slice), st (*QueryStatus), err, and whether the call panicked instead
Result(contact, contacts, st, err) ==
    [contact |-> contact, contacts |-> contacts, st |-> st, err |-> err,
     panicked |-> FALSE]

NoResult == Result(<<>>, <<>>, <<>>, NoError)

Panicked == [NoResult EXCEPT !.panicked = TRUE]

\* CreateContact: the request built at line 250
CreateRequest(s, p, order) ==
    NewRequest("POST", URL(s.endpoint \o "/" \o s.projection, {}),
               MarshalContactKind(p, order))

\* faulty variant: 200 OK is taken for success like 201 Created
CreateResultAccept200(res) ==
    IF res.failed THEN Result(<<>>, <<>>, <<>>, Error("transport", 0))
    ELSE IF res.status \in {StatusCreated, StatusOK}
    THEN DecodedResult(DecodeContact(res.body))
    ELSE IF res.status = StatusConflict
    THEN Result(<<>>, <<>>, <<>>, Error("version conflict", 0))
    ELSE IF res.status \in {StatusBadRequest, StatusUnauthorized,
                            StatusForbidden, StatusNotFound}
    THEN Result(<<>>, <<>>, <<>>, Error("request", res.status))
    ELSE Result(<<>>, <<>>, <<>>, Error("unknown", res.status))

\* CreateContact: the switch on res.StatusCode
CreateResult(res) ==
    IF res.failed THEN Result(<<>>, <<>>, <<>>, Error("transport", 0))
    ELSE IF res.status = StatusCreated
    THEN DecodedResult(DecodeContact(res.body))
    ELSE IF res.status = StatusConflict
    THEN Result(<<>>, <<>>, <<>>, Error("version conflict", 0))
    ELSE IF res.status \in {StatusBadRequest, StatusUnauthorized,
                            StatusForbidden, StatusNotFound}
    THEN Result(<<>>, <<>>, <<>>, Error("request", res.status))
    ELSE Result(<<>>, <<>>, <<>>, Error("unknown", res.status))

\* getContact: whether the If-None-Match header is set
getContactConditional(etag) == etag # "" /\ etag # "*"

\* getContact: the request
getContactRequest(s, id, projection, etag) ==
    LET req == NewRequest("GET",
                          URL(s.endpoint \o "/" \o getPojection(s, projection) \o "/" \o id, {}),
                          NoBody)
    IN  IF getContactConditional(etag) THEN HeaderSet(req, "If-None-Match", etag) ELSE req

\* faulty variant: the 304 short-circuit is missing, the body is always decoded
getContactResultAlwaysDecode(res) ==
    IF res.failed THEN Result(<<>>, <<>>, <<>>, Error("transport", 0))
    ELSE DecodedResult(DecodeContact(res.body))

\* getContact: what it returns for a response (transport error included)
getContactResult(res) ==
    IF res.failed THEN Result(<<>>, <<>>, <<>>, Error("transport", 0))
    ELSE IF res.status = StatusNotModified THEN NoResult
    ELSE DecodedResult(DecodeContact(res.body))

\* faulty variant: an empty tag passes the version check
etagMismatchUnlessEmpty(opEtag, etag) == opEtag # etag /\ etag # "*" /\ etag # ""

\* UpdateContact / DeleteContact: the version check on the fetched contact
etagMismatch(opEtag, etag) == opEtag # etag /\ etag # "*"

\* faulty variant: the PUT goes to the self link and carries the fetched tag
UpdateRequestSelfLink(op, etag, p, order) ==
    HeaderSet(NewRequest("PUT", URL(op.selfLink, {}), MarshalContactKind(p, order)),
              "If-Match", op.etag)

\* UpdateContact: the PUT request
UpdateRequest(op, etag, p, order) ==
    HeaderSet(NewRequest("PUT", URL(op.editLink, {}), MarshalContactKind(p, order)),
              "If-Match", etag)

\* UpdateContact: from the PUT response to the return value
UpdateResult(res) ==
    IF res.failed THEN Result(<<>>, <<>>, <<>>, Error("transport", 0))
    ELSE IF res.status # StatusOK THEN Result(<<>>, <<>>, <<>>, Error("status", res.status))
    ELSE DecodedResult(DecodeContact(res.body))

\* DeleteContact: the DELETE request
DeleteRequest(op, etag) ==
    HeaderSet(NewRequest("DELETE", URL(op.editLink, {}), NoBody), "If-Match", etag)

\* faulty variant: a DELETE answered with a status of 400 or more is an error
DeleteResultCheckStatus(res) ==
    IF res.failed THEN Result(<<>>, <<>>, <<>>, Error("transport", 0))
    ELSE IF res.status >= 400 THEN Result(<<>>, <<>>, <<>>, Error("status", res.status))
    ELSE NoResult

\* DeleteContact: from the DELETE response to the return value
DeleteResult(res) ==
    IF res.failed THEN Result(<<>>, <<>>, <<>>, Error("transport", 0)) ELSE NoResult

(***************************************************************************)
(* ListContacts: query options, the first request, the page loop           *)
(***************************************************************************)
\* url.Values.Set
ValuesSet(v, key, value) == {x \in v : x.key # key} \cup {[key |-> key, value |-> value]}

\* faulty variant: the flag is not set
withoutStrict(v) == v

\* withStrict
withStrict(v) == ValuesSet(v, "strict", "true")

\* strings.HasPrefix(t, "-") on a term given as its sequence of characters
HasDashPrefix(t) == t # <<>> /\ Head(t) = "-"

\* strings.TrimPrefix(t, "-")
TrimDashPrefix(t) == IF HasDashPrefix(t) THEN Tail(t) ELSE t

\* what the loop of WithTextQuery writes to the buffer for texts[idx]: a blank
\* when idx is not the first index, then -"term" for a term that starts with
\* '-'; there is no branch for a term without that prefix.
TextQueryPiece(idx, t) ==
    (IF idx # 1 THEN <<" ">> ELSE <<>>)
      \o (IF HasDashPrefix(t) THEN <<"-", "\"">> \o TrimDashPrefix(t) \o <<"\"">> ELSE <<>>)

RECURSIVE TextQueryBuffer(_, _)
TextQueryBuffer(texts, idx) ==
    IF idx > Len(texts) THEN <<>>
    ELSE TextQueryPiece(idx, texts[idx]) \o TextQueryBuffer(texts, idx + 1)

\* WithTextQuery(texts) applied to the parameter set v
WithTextQuery(v, texts) == ValuesSet(v, "q", TextQueryBuffer(texts, 1))

\* b.String(): the characters written to the buffer, as one string
RECURSIVE BufferString(_)
BufferString(b) == IF b = <<>> THEN "" ELSE Head(b) \o BufferString(Tail(b))

\* the option functions of the package, applied to the parameter set; the
\* option q is given by its name and its argument (arg, or texts for
\* WithTextQuery)
ApplyOption(v, q) ==
    CASE q.name = "WithMaxResults"   -> ValuesSet(v, "max-results", q.arg)
      [] q.name = "WithStartIndex"   -> ValuesSet(v, "start-index", q.arg)
      [] q.name = "WithUpdateMin"    -> ValuesSet(v, "updated-min", q.arg)
      [] q.name = "WithUpdateMax"    -> ValuesSet(v, "updated-max", q.arg)
      [] q.name = "WithShowDeleted"  -> ValuesSet(v, "showdeleted", q.arg)
      [] q.name = "WithSort"         ->
            ValuesSet(ValuesSet(v, "orderby", "lastmodified"), "sortorder", q.arg)
      [] q.name = "FilterByAuthor"   -> ValuesSet(v, "author", q.arg)
      [] q.name = "FilterByCategory" -> ValuesSet(v, "category", q.arg)
      [] q.name = "withReturnType"   -> ValuesSet(v, "alt", q.arg)
      [] q.name = "WithTextQuery"    -> ValuesSet(v, "q", BufferString(TextQueryBuffer(q.texts, 1)))

\* for _, q := range queries { q(params) }
RECURSIVE ApplyOptions(_, _)
ApplyOptions(v, queries) ==
    IF queries = <<>> THEN v
    ELSE ApplyOptions(ApplyOption(v, Head(queries)), Tail(queries))

\* ListContacts: whether the If-None-Match header is set on the first request
listConditional(etag) == etag # ""

\* ListContacts: the first page request
ListRequest(s, projection, etag, queries) ==
    LET params == IF Len(queries) > 0 THEN ApplyOptions(withStrict({}), queries) ELSE {}
        req    == NewRequest("GET",
                             URL(s.endpoint \o "/" \o getPojection(s, projection), params),
                             NoBody)
    IN  IF listConditional(etag) THEN HeaderSet(req, "If-None-Match", etag) ELSE req

\* entries decoded one by one into the slice f.Contacts; one failure fails all
EntriesDecoded(ds) ==
    [ok |-> \A i \in DOMAIN ds : ds[i].ok, cs |-> MapSeq(ds, LAMBDA d : d.c)]

DecodeEntries(els) ==
    EntriesDecoded(MapSeq(els, LAMBDA e : UnmarshalContactKind(ZeroContactKind, e)))

\* the struct feed filled from the root element, given its decoded entries
FeedDecoded(kind, root, es) ==
    [ok |-> kind = "xml" /\ es.ok,
     f  |-> [Etag     |-> AttrVal(root, "etag"),
             Updated  |-> ChildText(root, "updated"),
             Links    |-> MapSeq(ChildrenOf(root, "link"), UnmarshalLink),
             Contacts |-> es.cs]]

\* xml.Decoder.Decode of a response body into the local struct feed: [ok, f]
DecodeFeed(body) ==
    FeedDecoded(body.kind, body.root, DecodeEntries(ChildrenNS(body.root, NSAtom, "entry")))

\* a string url.Parse rejects (invalid URL escape); it stands for every href
\* http.NewRequestWithContext cannot build a request for
BadHref == "%zz"

\* `req, _ = http.NewRequestWithContext(ctx, method, href, nil)`: the request,
\* or nil when the href does not parse (the error is dropped)
NewRequestOrNil(method, href) ==
    IF href = BadHref THEN <<>> ELSE <<NewRequest(method, URL(href, {}), NoBody)>>

\* faulty variant: the follow-up request is built with context.Background()
RECURSIVE LinksLoopBackground(_, _, _)
LinksLoopBackground(links, i, req) ==
    IF i > Len(links) THEN req
    ELSE IF links[i].Related = "next"
         THEN <<[NewRequest("GET", URL(links[i].Href, {}), NoBody)
                    EXCEPT !.ctx = "background"]>>
         ELSE LinksLoopBackground(links, i + 1, <<>>)

\* the range loop over f.Links from index i on, req being the loop variable of
\* ListContacts: a "next" link replaces req and ends the loop, any other link
\* sets req to nil.
RECURSIVE LinksLoop(_, _, _)
LinksLoop(links, i, req) ==
    IF i > Len(links) THEN req
    ELSE IF links[i].Related = "next"
         THEN NewRequestOrNil("GET", links[i].Href)
         ELSE LinksLoop(links, i + 1, <<>>)

NextRequest(links, req) == LinksLoop(links, 1, req)

\* faulty variant: the contacts of a page are put in front of those of earlier pages
PrependClones(r, contacts) == MapSeq(contacts, Clone) \o r

\* o := ct.Clone(); ret = append(ret, &o) for every contact of the page
AppendClones(r, contacts) == r \o MapSeq(contacts, Clone)

QueryStatus(f) == [Updated |-> f.Updated, Etag |-> f.Etag]

(***************************************************************************)
(* Inputs: what callers pass and what the transport may answer             *)
(***************************************************************************)
MaxRequests == 3   \* requests one ListContacts traversal may issue in the model

MaxTextLen == 3    \* tokens in a full name or a dial string given to the codec

Domain == "example.com"

IDs == {"c1"}

Projections == {"", "thin"}

CallerEtags == {"", "*", "e1", "e2"}

relHome == "http://schemas.google.com/g/2005#home"

relWork == "http://schemas.google.com/g/2005#work"

\* contacts a caller passes to CreateContact / UpdateContact
CallerContacts ==
    {[ZeroContactKind EXCEPT !.Name = [ZeroGDName EXCEPT !.FullName = <<"Liz">>]],
     [ZeroContactKind EXCEPT
        !.Email = <<[ZeroGDEmail EXCEPT !.Address = "liz@gmail.com", !.Related = relHome]>>,
        !.PhoneNumber = <<[ZeroGDPhoneNumber EXCEPT !.Related = relWork,
                                                    !.DialNumber = <<"555">>]>>,
        !.ExtendedProperty = [k \in {"k1"} |-> "v1"]]}

QueryOptions ==
    {<<>>,
     <<[name |-> "WithMaxResults", arg |-> "10"]>>,
     <<[name |-> "WithShowDeleted", arg |-> "true"],
       [name |-> "WithSort", arg |-> "ascending"]>>}

\* an Atom element with character data only
AtomText(local, text) == El(XName(NSAtom, local), <<>>, <<>>, text)

AtomLink(rel, href) ==
    El(XName(NSAtom, "link"), <<Attr("rel", rel), Attr("href", href)>>, <<>>, <<>>)

EtagAttr(etag) == [name |-> XName(NSGD, "etag"), value |-> etag]

\* an entry as the service sends it
ServerEntry(id, etag, term, links, emails) ==
    El(XName(NSAtom, "entry"), <<EtagAttr(etag)>>,
       <<El(XName(NSAtom, "category"),
            <<Attr("scheme", kindScheme), Attr("term", term)>>, <<>>, <<>>),
         AtomText("id", <<id>>),
         AtomText("updated", <<"2023-08-18T09:54:17.202Z">>)>>
         \o links
         \o MapSeq(emails, LAMBDA a :
               El(XName(NSGD, "email"), <<Attr("rel", relWork), Attr("address", a)>>,
                  <<>>, <<>>)),
       <<>>)

EditHref(id) == "https://www.google.com/m8/feeds/contacts/example.com/full/" \o id \o "/v"

Entry1 ==
    ServerEntry("c1", "e1", contactTerm,
                <<AtomLink("self", "https://www.google.com/m8/feeds/contacts/example.com/full/c1"),
                  AtomLink("edit", EditHref("c1"))>>,
                <<"liz@gmail.com">>)

Entry2 == ServerEntry("c2", "e2", contactTerm, <<AtomLink("edit", EditHref("c2"))>>, <<>>)

Entry3 == ServerEntry("c3", "e3", contactTerm, <<>>, <<"a@example.org", "b@example.org">>)

GroupEntry ==
    ServerEntry("g1", "e9", "http://schemas.google.com/contact/2008#group", <<>>, <<>>)

XMLBody(root) == [kind |-> "xml", root |-> root]

EmptyBody == [kind |-> "empty", root |-> NoBody]

MalformedBody == [kind |-> "malformed", root |-> NoBody]

Response(status, body) == [failed |-> FALSE, status |-> status, body |-> body]

\* the transport returned an error instead of a response
TransportFailure == [failed |-> TRUE, status |-> 0, body |-> EmptyBody]

Statuses ==
    {StatusOK, StatusCreated, StatusNotModified, StatusBadRequest, StatusUnauthorized,
     StatusForbidden, StatusNotFound, StatusConflict, 500}

EntryBodies == {XMLBody(Entry1), XMLBody(Entry2), XMLBody(GroupEntry), EmptyBody}

\* answers to a request for one entry
EntryResponses ==
    {TransportFailure} \cup {Response(st, b) : st \in Statuses, b \in EntryBodies}

\* a feed page as the service sends it
FeedPage(etag, links, entries) ==
    XMLBody(El(XName(NSAtom, "feed"), <<EtagAttr(etag)>>,
               <<AtomText("updated", <<"updated-of-" \o etag>>)>> \o links \o entries,
               <<>>))

NextHref(etag) == "https://www.google.com/m8/feeds/contacts/example.com/full?after=" \o etag

SelfHref == "https://www.google.com/m8/feeds/contacts/example.com/full"

\* the link collections a page may carry
PageLinks(etag) ==
    {<<>>,
     <<AtomLink("self", SelfHref)>>,
     <<AtomLink("next", NextHref(etag))>>,
     <<AtomLink("self", SelfHref), AtomLink("next", NextHref(etag))>>}

FeedPages ==
    {FeedPage("f1", l, <<Entry1>>) : l \in PageLinks("f1")}
      \cup {FeedPage("f2", <<AtomLink("next", NextHref("f2"))>>, <<Entry2, Entry3>>),
            FeedPage("f2", <<AtomLink("self", SelfHref)>>, <<Entry2, Entry3>>),
            FeedPage("f2", <<AtomLink("next", BadHref)>>, <<Entry2, Entry3>>),
            FeedPage("f3", <<>>, <<>>),
            FeedPage("f3", <<AtomLink("self", SelfHref)>>, <<>>)}

\* answers to a request for a feed page
FeedResponses ==
    {TransportFailure,
     Response(StatusNotModified, EmptyBody),
     Response(500, MalformedBody),
     Response(StatusOK, FeedPage("f4", <<>>, <<GroupEntry>>))}
      \cup {Response(StatusOK, b) : b \in FeedPages}

(***************************************************************************)
(* The service as a state machine: one call runs from "idle" to "done",    *)
(* stopping wherever the code waits for the transport (s.base.Do).         *)
(***************************************************************************)
NoCall ==
    [op |-> "none", id |-> "", projection |-> "", etag |-> "", p |-> <<>>,
     queries |-> <<>>, order |-> <<>>]

CodecOff == cpc = "off" /\ cin = <<>> /\ cwire = <<>> /\ cout = <<>>

\* what belongs to one call (one goroutine): its position, arguments, context,
\* exchanges and result
IdleLocal ==
    [pc |-> "idle", call |-> NoCall, reqs |-> <<>>, resps |-> <<>>, ret |-> NoResult,
     lret |-> <<>>, lreq |-> <<>>, cancelled |-> FALSE, wire |-> <<>>]

Init ==
    /\ svc \in {NewService(Domain, dp) : dp \in Projections}
    /\ pc = "idle"
    /\ call = NoCall
    /\ reqs = <<>>
    /\ resps = <<>>
    /\ ret = NoResult
    /\ lret = <<>>
    /\ lreq = <<>>
    /\ cancelled = FALSE
    /\ wire = <<>>
    /\ parked = IdleLocal
    /\ CodecOff

\* s.base.Do(req): the request passes the wrapping transport; the base
\* transport sends it on unless the context of the request is done by then
\* (as net/http's Transport does)
Do(req) ==
    /\ reqs' = Append(reqs, RoundTrip(req))
    /\ wire' = IF cancelled' /\ req.ctx = "ctx" THEN wire ELSE Append(wire, RoundTrip(req))

\* res may be what s.base.Do returns for the pending request: an error when
\* the context of that request is done
Answers(res) == (cancelled /\ reqs[Len(reqs)].ctx = "ctx") => res = TransportFailure

\* the call returns r
Return(r) == ret' = r /\ pc' = "done"

CreateContact(p, order) ==
    /\ pc = "idle"
    /\ UNCHANGED cancelled
    /\ call' = [NoCall EXCEPT !.op = "Create", !.p = <<p>>, !.order = order]
    /\ Do(CreateRequest(svc, p, order))
    /\ svc' = serviceAfter(svc, "")
    /\ pc' = "create"
    /\ UNCHANGED <<resps, ret, lret, lreq, parked, codecVars>>

CreateContactReturn(res) ==
    /\ pc = "create"
    /\ Answers(res)
    /\ resps' = Append(resps, res)
    /\ Return(CreateResult(res))
    /\ UNCHANGED <<svc, call, reqs, lret, lreq, cancelled, wire, parked, codecVars>>

GetContact(id, projection, etag) ==
    /\ pc = "idle"
    /\ UNCHANGED cancelled
    /\ call' = [NoCall EXCEPT !.op = "Get", !.id = id, !.projection = projection,
                              !.etag = etag]
    /\ Do(getContactRequest(svc, id, projection, etag))
    /\ svc' = serviceAfter(svc, projection)
    /\ pc' = "get"
    /\ UNCHANGED <<resps, ret, lret, lreq, parked, codecVars>>

GetContactReturn(res) ==
    /\ pc = "get"
    /\ Answers(res)
    /\ resps' = Append(resps, res)
    /\ Return(getContactResult(res))
    /\ UNCHANGED <<svc, call, reqs, lret, lreq, cancelled, wire, parked, codecVars>>

UpdateContact(id, etag, p, order) ==
    /\ pc = "idle"
    /\ UNCHANGED cancelled
    /\ call' = [NoCall EXCEPT !.op = "Update", !.id = id, !.etag = etag, !.p = <<p>>,
                              !.order = order]
    /\ Do(getContactRequest(svc, id, "full", ""))
    /\ svc' = serviceAfter(svc, "full")
    /\ pc' = "update_get"
    /\ UNCHANGED <<resps, ret, lret, lreq, parked, codecVars>>

\* faulty variant: a failed preliminary GET is sent again instead of returned
UpdateContactCheckedRetry(g) ==
           IF g.err # NoError /\ Len(reqs) < MaxRequests
           THEN /\ Do(getContactRequest(svc, call.id, "full", ""))
                /\ UNCHANGED <<pc, ret>>
           ELSE IF g.err # NoError
           THEN Return(Result(<<>>, <<>>, <<>>, g.err)) /\ UNCHANGED <<reqs, wire>>
           ELSE IF g.contact = <<>>
           THEN Return(Panicked) /\ UNCHANGED <<reqs, wire>>
           ELSE IF etagMismatch(g.contact[1].etag, call.etag)
           THEN Return(Result(<<>>, <<>>, <<>>, Error("etag not match", 0)))
                /\ UNCHANGED <<reqs, wire>>
           ELSE /\ Do(UpdateRequest(g.contact[1], call.etag, call.p[1], call.order))
                /\ pc' = "update_put"
                /\ UNCHANGED ret

\* UpdateContact after `op, err := s.getContact(...)` returned g
UpdateContactChecked(g) ==
           IF g.err # NoError
           THEN Return(Result(<<>>, <<>>, <<>>, g.err)) /\ UNCHANGED <<reqs, wire>>
           ELSE IF g.contact = <<>>
           THEN Return(Panicked) /\ UNCHANGED <<reqs, wire>>    \* op.etag with op == nil
           ELSE IF etagMismatch(g.contact[1].etag, call.etag)
           THEN Return(Result(<<>>, <<>>, <<>>, Error("etag not match", 0)))
                /\ UNCHANGED <<reqs, wire>>
           ELSE /\ Do(UpdateRequest(g.contact[1], call.etag, call.p[1], call.order))
                /\ pc' = "update_put"
                /\ UNCHANGED ret

\* UpdateContact from the answer to its GET up to the PUT (or an early return);
\* `late`: the context is cancelled while the answer is being processed
UpdateContactPut(res, late) ==
    /\ pc = "update_get"
    /\ Answers(res)
    /\ cancelled' = (cancelled \/ late)
    /\ resps' = Append(resps, res)
    /\ UpdateContactChecked(getContactResult(res))
    /\ UNCHANGED <<svc, call, lret, lreq, parked, codecVars>>

UpdateContactReturn(res) ==
    /\ pc = "update_put"
    /\ Answers(res)
    /\ resps' = Append(resps, res)
    /\ Return(UpdateResult(res))
    /\ UNCHANGED <<svc, call, reqs, lret, lreq, cancelled, wire, parked, codecVars>>

DeleteContact(id, etag) ==
    /\ pc = "idle"
    /\ UNCHANGED cancelled
    /\ call' = [NoCall EXCEPT !.op = "Delete", !.id = id, !.etag = etag]
    /\ Do(getContactRequest(svc, id, "thin", ""))
    /\ svc' = serviceAfter(svc, "thin")
    /\ pc' = "delete_get"
    /\ UNCHANGED <<resps, ret, lret, lreq, parked, codecVars>>

\* DeleteContact after `op, err := s.getContact(...)` returned g
DeleteContactChecked(g) ==
           IF g.err # NoError
           THEN Return(Result(<<>>, <<>>, <<>>, g.err)) /\ UNCHANGED <<reqs, wire>>
           ELSE IF g.contact = <<>>
           THEN Return(Panicked) /\ UNCHANGED <<reqs, wire>>    \* op.etag with op == nil
           ELSE IF etagMismatch(g.contact[1].etag, call.etag)
           THEN Return(Result(<<>>, <<>>, <<>>, Error("etag not match", 0)))
                /\ UNCHANGED <<reqs, wire>>
           ELSE /\ Do(DeleteRequest(g.contact[1], call.etag))
                /\ pc' = "delete_do"
                /\ UNCHANGED ret

\* DeleteContact from the answer to its GET up to the DELETE (or an early return)
DeleteContactDo(res, late) ==
    /\ pc = "delete_get"
    /\ Answers(res)
    /\ cancelled' = (cancelled \/ late)
    /\ resps' = Append(resps, res)
    /\ DeleteContactChecked(getContactResult(res))
    /\ UNCHANGED <<svc, call, lret, lreq, parked, codecVars>>

DeleteContactReturn(res) ==
    /\ pc = "delete_do"
    /\ Answers(res)
    /\ resps' = Append(resps, res)
    /\ Return(DeleteResult(res))
    /\ UNCHANGED <<svc, call, reqs, lret, lreq, cancelled, wire, parked, codecVars>>

\* ListContacts up to the first s.base.Do(req) of the loop
ListContacts(projection, etag, queries) ==
    /\ pc = "idle"
    /\ UNCHANGED cancelled
    /\ call' = [NoCall EXCEPT !.op = "List", !.projection = projection, !.etag = etag,
                              !.queries = queries]
    /\ LET req == ListRequest(svc, projection, etag, queries)
       IN  Do(req) /\ lreq' = <<req>>
    /\ svc' = serviceAfter(svc, projection)
    /\ lret' = <<>>
    /\ pc' = "list"
    /\ UNCHANGED <<resps, ret, parked, codecVars>>

\* the rest of a loop iteration once the page f is decoded: r is ret after
\* the appends, req the loop variable after the range over f.Links
ListContactsLooped(f, r, req) ==
    /\ lret' = r
    /\ lreq' = req
    /\ IF req = <<>>
       THEN /\ Return(Result(<<>>, <<r>>, <<QueryStatus(f)>>, NoError))
            /\ UNCHANGED <<reqs, wire>>
       ELSE /\ Len(reqs) < MaxRequests
            /\ Do(req[1])
            /\ UNCHANGED <<pc, ret>>

\* a loop iteration after s.base.Do(req) returned res and Decode returned d
ListContactsDecoded(res, d) ==
    IF res.failed
    THEN /\ Return(Result(<<>>, <<>>, <<>>, Error("transport", 0)))
         /\ UNCHANGED <<reqs, wire, lret, lreq>>
    ELSE IF ~d.ok
    THEN /\ Return(Result(<<>>, <<>>, <<>>, Error("decode", 0)))
         /\ UNCHANGED <<reqs, wire, lret, lreq>>
    ELSE ListContactsLooped(d.f, AppendClones(lret, d.f.Contacts),
                            NextRequest(d.f.Links, lreq))

\* one iteration of the loop `for req != nil`, from the answer to the pending
\* request up to the next s.base.Do(req) or the return; `late`: the context is
\* cancelled while the page is being processed
ListContactsPage(res, late) ==
    /\ pc = "list"
    /\ Answers(res)
    /\ cancelled' = (cancelled \/ late)
    /\ resps' = Append(resps, res)
    /\ ListContactsDecoded(res, DecodeFeed(res.body))
    /\ UNCHANGED <<svc, call, parked, codecVars>>

\* the caller cancels the context it passed (before the call, or while the
\* call waits for the transport)
Cancel ==
    /\ pc # "done"
    /\ ~cancelled
    /\ cancelled' = TRUE
    /\ UNCHANGED <<svc, pc, call, reqs, resps, ret, lret, lreq, wire, parked, codecVars>>

Next ==
    \/ \E p \in CallerContacts : \E o \in Orders(DOMAIN p.ExtendedProperty) :
          CreateContact(p, o)
    \/ \E res \in EntryResponses : CreateContactReturn(res)
    \/ \E id \in IDs, pr \in Projections, e \in CallerEtags : GetContact(id, pr, e)
    \/ \E res \in EntryResponses : GetContactReturn(res)
    \/ \E id \in IDs, e \in CallerEtags, p \in CallerContacts :
          \E o \in Orders(DOMAIN p.ExtendedProperty) : UpdateContact(id, e, p, o)
    \/ \E res \in EntryResponses, late \in BOOLEAN : UpdateContactPut(res, late)
    \/ \E res \in EntryResponses : UpdateContactReturn(res)
    \/ \E id \in IDs, e \in CallerEtags : DeleteContact(id, e)
    \/ \E res \in EntryResponses, late \in BOOLEAN : DeleteContactDo(res, late)
    \/ \E res \in EntryResponses : DeleteContactReturn(res)
    \/ \E pr \in Projections, e \in CallerEtags, q \in QueryOptions : ListContacts(pr, e, q)
    \/ \E res \in FeedResponses, late \in BOOLEAN : ListContactsPage(res, late)
    \/ Cancel

Spec == Init /\ [][Next]_vars

(***************************************************************************)
(* Two goroutines calling methods of one *service: each call keeps its     *)
(* arguments, requests, responses and result in variables of its own       *)
(* goroutine; the service struct is all they share. One call is held in    *)
(* the variables of the state machine, the other one in `parked`.          *)
(***************************************************************************)
Local ==
    [pc |-> pc, call |-> call, reqs |-> reqs, resps |-> resps, ret |-> ret,
     lret |-> lret, lreq |-> lreq, cancelled |-> cancelled, wire |-> wire]

\* the scheduler runs the other goroutine
Switch ==
    /\ parked' = Local
    /\ pc' = parked.pc
    /\ call' = parked.call
    /\ reqs' = parked.reqs
    /\ resps' = parked.resps
    /\ ret' = parked.ret
    /\ lret' = parked.lret
    /\ lreq' = parked.lreq
    /\ cancelled' = parked.cancelled
    /\ wire' = parked.wire
    /\ UNCHANGED <<svc, codecVars>>

ConcContact == [ZeroContactKind EXCEPT !.Name = [ZeroGDName EXCEPT !.FullName = <<"Liz">>]]

ConcEtags == {"", "e1"}

ConcEntryResponses ==
    {TransportFailure, Response(StatusOK, XMLBody(Entry1)),
     Response(StatusCreated, XMLBody(Entry2))}

ConcFeedResponses ==
    {TransportFailure,
     Response(StatusOK, FeedPage("f1", <<AtomLink("next", NextHref("f1"))>>, <<Entry1>>)),
     Response(StatusOK, FeedPage("f3", <<AtomLink("self", SelfHref)>>, <<>>))}

NextConc ==
    \/ CreateContact(ConcContact, <<>>)
    \/ \E res \in ConcEntryResponses : CreateContactReturn(res)
    \/ \E pr \in Projections, e \in ConcEtags : GetContact("c1", pr, e)
    \/ \E res \in ConcEntryResponses : GetContactReturn(res)
    \/ \E e \in ConcEtags : UpdateContact("c1", e, ConcContact, <<>>)
    \/ \E res \in ConcEntryResponses : UpdateContactPut(res, FALSE)
    \/ \E res \in ConcEntryResponses : UpdateContactReturn(res)
    \/ DeleteContact("c1", "e1")
    \/ \E res \in ConcEntryResponses : DeleteContactDo(res, FALSE)
    \/ \E res \in ConcEntryResponses : DeleteContactReturn(res)
    \/ \E pr \in Projections : ListContacts(pr, "", <<>>)
    \/ \E res \in ConcFeedResponses : ListContactsPage(res, FALSE)
    \/ Switch

SpecConcurrent == Init /\ [][NextConc]_vars

(***************************************************************************)
(* The codec on its own: xml.Marshal of a sub-structure, then xml.Unmarshal *)
(* of the result into a zero value, as the tests of the package do.        *)
(***************************************************************************)
RECURSIVE TextsOfLen(_)
TextsOfLen(n) ==
    IF n = 0 THEN {<<>>}
    ELSE {<<t>> \o s : t \in {" ", "a"}, s \in TextsOfLen(n - 1)}

\* full names and dial strings, with leading, inner and trailing blanks
Texts == UNION {TextsOfLen(n) : n \in 0..MaxTextLen}

Words == {<<>>, <<"w">>}

Strs(v) == {"", v}

Names ==
    [GivenName : Words, AdditionalName : Words, FamilyName : Words,
     Prefix : Words, Suffix : Words, FullName : Texts]

Emails ==
    [Address : Strs("liz@gmail.com"), Related : Strs(relHome), Label : Strs("Personal"),
     Primary : BOOLEAN, DisplayName : Strs("Liz")]

PhoneNumbers ==
    [Related : Strs(relWork), Label : Strs("Desk"), URI : Strs("tel:+1-425-555-8080"),
     Primary : BOOLEAN, DialNumber : Texts]

IMs ==
    [Address : Strs("liz@gmail.com"), Label : Strs("Chat"), Related : Strs(relHome),
     Protocol : Strs("http://schemas.google.com/g/2005#GOOGLE_TALK"), Primary : BOOLEAN]

\* addresses: every combination of the attributes, with up to two of the
\* child elements filled
AddressFields ==
    {"Agent", "HouseName", "Pobox", "Neighborhood", "City", "Street", "Region",
     "SubRegion", "PostCode", "Country", "FormattedAddress"}

AddressAttrs ==
    [Related : Strs(relWork),
     MailClass : Strs("http://schemas.google.com/g/2005#letters"),
     Usage : Strs("http://schemas.google.com/g/2005#general"),
     Label : Strs("John at Google"), Primary : BOOLEAN]

Addresses ==
    {[f \in DOMAIN ZeroGDStructuredPostalAddress |->
         IF f \in DOMAIN at THEN at[f]
         ELSE IF f \in filled THEN <<"x">> ELSE <<>>] :
       at \in AddressAttrs,
       filled \in {S \in SUBSET AddressFields : Cardinality(S) <= 2}}

ExtendedProperties == [Name : Strs("k1"), Value : Strs("v1"), Realm : Strs("r1")]

CodecInputs ==
    UNION {{[kind |-> "name", v |-> x] : x \in Names},
           {[kind |-> "email", v |-> x] : x \in Emails},
           {[kind |-> "phoneNumber", v |-> x] : x \in PhoneNumbers},
           {[kind |-> "im", v |-> x] : x \in IMs},
           {[kind |-> "structuredPostalAddress", v |-> x] : x \in Addresses},
           {[kind |-> "extendedProperty", v |-> x] : x \in ExtendedProperties}}

\* xml.Marshal(x): the MarshalXML method of x's type
Marshal(x) ==
    CASE x.kind = "name" -> MarshalGDName(x.v)
      [] x.kind = "email" -> MarshalGDEmail(x.v)
      [] x.kind = "phoneNumber" -> MarshalGDPhoneNumber(x.v)
      [] x.kind = "im" -> MarshalGDIM(x.v)
      [] x.kind = "structuredPostalAddress" -> MarshalGDStructuredPostalAddress(x.v)
      [] x.kind = "extendedProperty" -> MarshalGDExtendedProperty(x.v)

\* xml.Unmarshal(bs, &y) with y a zero value of the kind: the UnmarshalXML
\* method of the type, or the struct tags where the type has none
Unmarshal(kind, el) ==
    [kind |-> kind,
     v |-> CASE kind = "name" -> UnmarshalGDName(el)
             [] kind = "email" -> UnmarshalGDEmail(el)
             [] kind = "phoneNumber" -> UnmarshalGDPhoneNumber(el)
             [] kind = "im" -> UnmarshalGDIM(el)
             [] kind = "structuredPostalAddress" ->
                   UnmarshalGDStructuredPostalAddress(ZeroGDStructuredPostalAddress, el)
             [] kind = "extendedProperty" -> UnmarshalGDExtendedProperty(el)]

ServiceIdle ==
    /\ svc = NewService(Domain, "")
    /\ pc = "idle"
    /\ call = NoCall
    /\ reqs = <<>>
    /\ resps = <<>>
    /\ ret = NoResult
    /\ lret = <<>>
    /\ lreq = <<>>
    /\ cancelled = FALSE
    /\ wire = <<>>
    /\ parked = IdleLocal

InitCodec ==
    /\ ServiceIdle
    /\ cpc = "in"
    /\ cin \in {<<x>> : x \in CodecInputs}
    /\ cwire = <<>>
    /\ cout = <<>>

XMLMarshal ==
    /\ cpc = "in"
    /\ cwire' = <<Marshal(cin[1])>>
    /\ cpc' = "wire"
    /\ UNCHANGED <<cin, cout, svcVars>>

XMLUnmarshal ==
    /\ cpc = "wire"
    /\ cout' = <<Unmarshal(cin[1].kind, cwire[1])>>
    /\ cpc' = "out"
    /\ UNCHANGED <<cin, cwire, svcVars>>

NextCodec == XMLMarshal \/ XMLUnmarshal

SpecCodec == InitCodec /\ [][NextCodec]_vars

(***************************************************************************)
(* The contact and the query builder on their own: xml.Marshal of a        *)
(* ContactKind, Clone, xml.Unmarshal of an entry into a ContactKind, and   *)
(* WithTextQuery, each applied to one input.                               *)
(***************************************************************************)
Email1 == [ZeroGDEmail EXCEPT !.Address = "liz@gmail.com", !.Related = relWork,
                              !.Primary = TRUE]

Email2 == [ZeroGDEmail EXCEPT !.Related = relHome]

Phone1 == [ZeroGDPhoneNumber EXCEPT !.Related = relWork, !.DialNumber = <<"555">>]

Phone2 == [ZeroGDPhoneNumber EXCEPT !.Related = relHome, !.DialNumber = <<"556">>]

Address1 == [ZeroGDStructuredPostalAddress EXCEPT !.Related = relWork,
                                                  !.City = <<"Mountain View">>]

IM1 == [ZeroGDIM EXCEPT !.Address = "liz@gmail.com", !.Related = relHome]

IM2 == [ZeroGDIM EXCEPT !.Address = "liz@example.org", !.Label = "Chat"]

\* the fields only the decoder sets, as a decoded entry carries them
ServerFields ==
    [deleted |-> TRUE, editLink |-> EditHref("c1"),
     photoLink |-> "https://www.google.com/m8/feeds/photos/media/example.com/c1",
     selfLink |-> SelfHref \o "/c1", id |-> <<"c1">>,
     updated |-> <<"2023-08-18T09:54:17.202Z">>, etag |-> "e1"]

NoServerFields ==
    [deleted |-> FALSE, editLink |-> "", photoLink |-> "", selfLink |-> "",
     id |-> <<>>, updated |-> <<>>, etag |-> ""]

ExtendedMaps ==
    {<<>>, [k \in {"k1"} |-> "v1"], [k \in {"k1", "k2"} |-> "v-" \o k]}

\* the caller-settable part of the contacts given to the encoder and to Clone
ContactData ==
    [Name : {ZeroGDName, [ZeroGDName EXCEPT !.GivenName = <<"Liz">>]},
     Email : {<<>>, <<Email1>>, <<Email1, Email2>>},
     PhoneNumber : {<<>>, <<Phone1>>, <<Phone1, Phone2>>},
     StructuredPostalAddress : {<<>>, <<Address1>>},
     IM : {<<>>, <<IM1>>, <<IM1, IM2>>},
     ExtendedProperty : ExtendedMaps,
     content : {<<>>, <<"note">>}]

Contacts ==
    {[f \in DOMAIN ZeroContactKind |-> IF f \in DOMAIN d THEN d[f] ELSE sf[f]] :
        d \in ContactData, sf \in {NoServerFields, ServerFields}}

\* an entry with no category element
NoCategoryEntry == [Entry1 EXCEPT !.children = Tail(@)]

\* the entries given to the decoder, and the contacts it decodes into
DecoderEntries == {Entry1, Entry2, Entry3, GroupEntry, NoCategoryEntry}

Receivers ==
    {ZeroContactKind,
     [ZeroContactKind EXCEPT !.Email = <<Email2>>, !.id = <<"c9">>, !.etag = "e9",
                             !.editLink = EditHref("c9")]}

\* search terms as sequences of characters
Terms == {<<"D">>, <<"-", "A">>, <<"E", " ", "B">>}

TextLists == UNION {[1..n -> Terms] : n \in 0..MaxTextLen}

\* every option function of the package, each with one argument
ListOptions ==
    {[name |-> "WithMaxResults", arg |-> "10", texts |-> <<>>],
     [name |-> "WithStartIndex", arg |-> "11", texts |-> <<>>],
     [name |-> "WithUpdateMin", arg |-> "2020-01-01T00:00:00Z", texts |-> <<>>],
     [name |-> "WithUpdateMax", arg |-> "2021-01-01T00:00:00Z", texts |-> <<>>],
     [name |-> "WithShowDeleted", arg |-> "false", texts |-> <<>>],
     [name |-> "WithSort", arg |-> "descending", texts |-> <<>>],
     [name |-> "FilterByAuthor", arg |-> "liz", texts |-> <<>>],
     [name |-> "FilterByCategory", arg |-> "Fritz|Laurie", texts |-> <<>>],
     [name |-> "withReturnType", arg |-> "atom", texts |-> <<>>],
     [name |-> "WithTextQuery", arg |-> "", texts |-> <<<<"-", "A">>, <<"D">>>>]}

MaxOptions == 2    \* option functions given to one ListContacts call

OptionLists == UNION {[1..n -> ListOptions] : n \in 0..MaxOptions}

ContactInputs ==
    UNION {{[kind |-> "contact", v |-> c, order |-> o] :
               o \in Orders(DOMAIN c.ExtendedProperty)} : c \in Contacts}
      \cup {[kind |-> "entry", v |-> e, into |-> r] : e \in DecoderEntries, r \in Receivers}
      \cup {[kind |-> "texts", v |-> t] : t \in TextLists}
      \cup {[kind |-> "list", projection |-> pr, etag |-> e, queries |-> q] :
               pr \in Projections, e \in {"", "e1"}, q \in OptionLists}

InitContact ==
    /\ ServiceIdle
    /\ cpc = "in"
    /\ cin \in {<<x>> : x \in ContactInputs}
    /\ cwire = <<>>
    /\ cout = <<>>

\* xml.Marshal(c)
ContactMarshal ==
    /\ cpc = "in"
    /\ cin[1].kind = "contact"
    /\ cwire' = <<MarshalContactKind(cin[1].v, cin[1].order)>>
    /\ cpc' = "wire"
    /\ UNCHANGED <<cin, cout, svcVars>>

\* c.Clone()
ContactClone ==
    /\ cpc = "in"
    /\ cin[1].kind = "contact"
    /\ cout' = <<[op |-> "Clone", v |-> Clone(cin[1].v)]>>
    /\ cpc' = "out"
    /\ UNCHANGED <<cin, cwire, svcVars>>

\* xml.Unmarshal(bs, &c): the receiver after the call, and whether it failed
ContactUnmarshal ==
    /\ cpc = "in"
    /\ cin[1].kind = "entry"
    /\ cout' = <<[op |-> "Unmarshal", v |-> UnmarshalContactKind(cin[1].into, cin[1].v)]>>
    /\ cpc' = "out"
    /\ UNCHANGED <<cin, cwire, svcVars>>

\* WithTextQuery(texts)(v) on an empty parameter set
TextQuery ==
    /\ cpc = "in"
    /\ cin[1].kind = "texts"
    /\ cout' = <<[op |-> "WithTextQuery", v |-> WithTextQuery({}, cin[1].v)]>>
    /\ cpc' = "out"
    /\ UNCHANGED <<cin, cwire, svcVars>>

\* ListContacts(ctx, projection, etag, queries...) up to its first s.base.Do:
\* the request as the base transport receives it
FirstPageRequest ==
    /\ cpc = "in"
    /\ cin[1].kind = "list"
    /\ cout' = <<[op |-> "ListContacts",
                  v  |-> RoundTrip(ListRequest(svc, cin[1].projection, cin[1].etag,
                                               cin[1].queries))]>>
    /\ cpc' = "out"
    /\ UNCHANGED <<cin, cwire, svcVars>>

NextContact ==
    ContactMarshal \/ ContactClone \/ ContactUnmarshal \/ TextQuery \/ FirstPageRequest

SpecContact == InitContact /\ [][NextContact]_vars

(***************************************************************************)
(* Properties of the service (checked under Spec)                          *)
(***************************************************************************)
\* the first request of the running call was answered with a response that
\* is not 304
AnsweredNot304 ==
    Len(resps) >= 1 /\ ~resps[1].failed /\ resps[1].status # StatusNotModified

\* d is the decoded answer to the preliminary GET: it holds a contact whose
\* tag differs from the caller's tag, which is not the wildcard
TagDiffers(d) == d.ok /\ d.c.etag # call.etag /\ call.etag # "*"

\* d holds a contact whose tag passes the version check
TagPasses(d) == d.ok /\ (d.c.etag = call.etag \/ call.etag = "*")

VersionMismatch ==
    /\ call.op \in {"Update", "Delete"}
    /\ AnsweredNot304
    /\ TagDiffers(DecodeContact(resps[1].body))

VersionPasses ==
    /\ call.op \in {"Update", "Delete"}
    /\ AnsweredNot304
    /\ TagPasses(DecodeContact(resps[1].body))

\* C1: when the caller's version tag differs from the tag of the contact the
\* preliminary GET of UpdateContact / DeleteContact returned, and is not "*",
\* the call returns an error and the preliminary GET is the only request
\* ever issued (no PUT, no DELETE).
C1_MismatchFailsBeforeMutation ==
    VersionMismatch =>
        /\ pc = "done"
        /\ ret.err # NoError
        /\ ret.contact = <<>>
        /\ ~ret.panicked
        /\ Len(reqs) = 1
        /\ reqs[1].method = "GET"

C1_Witness ==
    /\ VersionMismatch
    /\ call.op = "Update"
    /\ call.etag = "e2"
    /\ pc = "done"
    /\ ret.err = Error("etag not match", 0)

\* the page root carries no link whose rel is "next"
NoNextLink(root) ==
    \A i \in DOMAIN root.children :
        root.children[i].name.local = "link" => AttrVal(root.children[i], "rel") # "next"

\* answer i of the traversal is a page that decodes and is the last of its feed
LastPage(i) ==
    /\ ~resps[i].failed
    /\ DecodeFeed(resps[i].body).ok
    /\ NoNextLink(resps[i].body.root)

\* C2 (as claimed): ListContacts issues exactly one request per page and
\* returns once it has received the page that carries no "next" link,
\* whatever else that page's link collection holds (nothing included).
C2_OneRequestPerPage ==
    call.op = "List" =>
        \A i \in 1..Len(resps) : LastPage(i) => Len(reqs) = i /\ pc = "done"

EntryIds(root) == MapSeq(ChildrenNS(root, NSAtom, "entry"), LAMBDA e : ChildText(e, "id"))

\* the ids of the entries of the pages received from answer i on, in order
RECURSIVE IdsFrom(_)
IdsFrom(i) ==
    IF i > Len(resps) THEN <<>> ELSE EntryIds(resps[i].body.root) \o IdsFrom(i + 1)

StatusOfPage(root) ==
    [Updated |-> ChildText(root, "updated"), Etag |-> AttrVal(root, "etag")]

ListSucceeded == call.op = "List" /\ pc = "done" /\ ret.err = NoError

\* C3: a ListContacts traversal that returns a result returns one contact per
\* entry of every page received, in page order and then entry order, and its
\* QueryStatus carries the version tag and updated time of the last page only.
C3_ListConcatenatesPages ==
    ListSucceeded =>
        /\ Len(ret.contacts) = 1
        /\ MapSeq(ret.contacts[1], LAMBDA c : c.id) = IdsFrom(1)
        /\ ret.st = <<StatusOfPage(resps[Len(resps)].body.root)>>

C3_Witness ==
    /\ ListSucceeded
    /\ Len(resps) = 3
    /\ MapSeq(ret.contacts[1], LAMBDA c : c.id) = <<<<"c1">>, <<"c2">>, <<"c3">>>>
    /\ ret.st[1].Etag = "f3"

\* what a Get call must return for a response that is not 304, given d, the
\* decoding of its body
DecodedOrError(d) ==
    \/ d.ok /\ ret.contact = <<d.c>> /\ ret.err = NoError
    \/ ~d.ok /\ ret.contact = <<>> /\ ret.err = Error("decode", 0)

\* C4: GetContact answered with 304 returns (nil, nil) whatever the body holds;
\* answered with any other response it returns the contact decoded from the
\* body, or the decode error.
C4_GetNotModifiedSentinel ==
    (call.op = "Get" /\ pc = "done" /\ ~resps[1].failed) =>
        IF resps[1].status = StatusNotModified
        THEN ret.contact = <<>> /\ ret.err = NoError /\ ~ret.panicked
        ELSE DecodedOrError(DecodeContact(resps[1].body))

C4_Witness ==
    /\ call.op = "Get"
    /\ pc = "done"
    /\ call.etag = "e1"
    /\ resps[1] = Response(StatusNotModified, XMLBody(Entry1))
    /\ ret = NoResult

\* C5 (as claimed): ListContacts called with a feed etag and answered 304 on
\* its first page request returns nil contacts and a nil error.
C5_ListNotModified ==
    (/\ call.op = "List"
     /\ call.etag \notin {"", "*"}
     /\ Len(resps) >= 1
     /\ ~resps[1].failed
     /\ resps[1].status = StatusNotModified) =>
        pc = "done" /\ ret.contacts = <<>> /\ ret.err = NoError

\* C6 (as claimed): the first request of GetContact and of ListContacts
\* carries If-None-Match exactly when the supplied tag is neither empty nor
\* "*", and its value is then the tag.
C6_IfNoneMatch ==
    (call.op \in {"Get", "List"} /\ Len(reqs) >= 1) =>
        /\ HasHeader(reqs[1], "If-None-Match") <=> call.etag \notin {"", "*"}
        /\ HasHeader(reqs[1], "If-None-Match") =>
               HeaderGet(reqs[1], "If-None-Match") = call.etag

\* what CreateContact must return for the answered status st, given d, the
\* decoding of the response body
CreateOutcome(st, d) ==
    /\ st = StatusCreated => DecodedOrError(d)
    /\ st = StatusConflict => ret.err = Error("version conflict", 0)
    /\ st \in {StatusBadRequest, StatusUnauthorized, StatusForbidden, StatusNotFound}
          => ret.err = Error("request", st)
    /\ st \notin {StatusCreated, StatusConflict, StatusBadRequest, StatusUnauthorized,
                  StatusForbidden, StatusNotFound}
          => ret.err = Error("unknown", st)
    /\ ret.contact # <<>> => st = StatusCreated

\* C7: CreateContact issues one POST to {endpoint}/{default projection}; 201
\* returns the decoded contact, 409 a version-conflict error, 400/401/403/404
\* a request error carrying the status, anything else an unknown-error; a
\* contact is returned only for 201.
C7_CreateStatusMapping ==
    call.op = "Create" =>
        /\ Len(reqs) = 1
        /\ reqs[1].method = "POST"
        /\ reqs[1].url = URL(svc.endpoint \o "/" \o svc.projection, {})
        /\ (pc = "done" /\ ~resps[1].failed) =>
               CreateOutcome(resps[1].status, DecodeContact(resps[1].body))

C7_Witness ==
    /\ call.op = "Create"
    /\ pc = "done"
    /\ resps[1] = Response(StatusCreated, XMLBody(Entry1))
    /\ Len(ret.contact) = 1
    /\ ret.contact[1].etag = "e1"

\* the second request of the call is `method` to the edit link of the fetched
\* contact d.c, with If-Match equal to the caller's tag
MutatesEditLink(method, d) ==
    /\ Len(reqs) = 2
    /\ reqs[2].method = method
    /\ reqs[2].url = URL(d.c.editLink, {})
    /\ HasHeader(reqs[2], "If-Match")
    /\ HeaderGet(reqs[2], "If-Match") = call.etag

Trimmed(x) ==
    CASE x.kind = "name" -> [x EXCEPT !.v.FullName = TrimSpace(@)]
      [] x.kind = "phoneNumber" -> [x EXCEPT !.v.DialNumber = TrimSpace(@)]
      [] OTHER -> x

\* C10 (as claimed): for every sub-structure x, decode(encode(x)) reproduces
\* every caller-settable field of x, the full name and the dial string in
\* trimmed form; a postal address keeps its relation.
C10_RoundTrip == cpc = "out" => cout[1] = Trimmed(cin[1])

(***************************************************************************)
(* Properties of the contact codec, of Clone and of the query builder      *)
(* (checked under SpecContact)                                             *)
(***************************************************************************)
\* the element the encoder was given contact c and map order `order` for
Encoded == cpc = "wire" /\ cin[1].kind = "contact"

\* e holds exactly the elements of c's sequences, in order, and one
\* gd:extendedProperty per key of c's map
EncodesSequences(c, order, e) ==
    /\ ChildrenOf(e, "email") = MapSeq(c.Email, MarshalGDEmail)
    /\ ChildrenOf(e, "phoneNumber") = MapSeq(c.PhoneNumber, MarshalGDPhoneNumber)
    /\ ChildrenOf(e, "structuredPostalAddress")
          = MapSeq(c.StructuredPostalAddress, MarshalGDStructuredPostalAddress)
    /\ ChildrenOf(e, "im") = MapSeq(c.IM, MarshalGDIM)
    /\ ChildrenOf(e, "extendedProperty")
          = MapSeq(order, LAMBDA k : MarshalGDExtendedProperty(
                                        [Name |-> k, Value |-> c.ExtendedProperty[k],
                                         Realm |-> ""]))

\* C11 (as claimed): the encoded entry holds exactly one gd:email,
\* gd:phoneNumber, gd:structuredPostalAddress and gd:im element per entry of
\* the contact's sequences, in order and with the entry's values, and one
\* gd:extendedProperty per key of the map; nothing more.
C11_EncodeLossless ==
    Encoded => EncodesSequences(cin[1].v, cin[1].order, cwire[1])

\* Clone was applied to the contact cin[1].v
Cloned == cpc = "out" /\ cout[1].op = "Clone"

\* C12 (as claimed): the clone equals the receiver in every field: the
\* sequences have the same length and entries in the same order, the map the
\* same pairs, the server-managed fields the same values.
C12_CloneEqual == Cloned => cout[1].v = cin[1].v

\* names of the elements that stand for a structure, not for a leaf field
StructureNames ==
    {"entry", "name", "email", "phoneNumber", "structuredPostalAddress", "im",
     "extendedProperty", "category"}

\* el carries no attribute whose value is empty, and is not the element of a
\* leaf field holding the empty string
NoZeroLeafAt(el) ==
    /\ \A i \in DOMAIN el.attrs : el.attrs[i].value # ""
    /\ el.name.local \notin StructureNames => el.text # <<>>

\* C13 (as claimed): the encoder emits no attribute and no element for a leaf
\* field whose value is the zero value of its type, in the entry and in every
\* sub-structure of it.
C13_OmitEmptyLeaves ==
    Encoded =>
        /\ NoZeroLeafAt(cwire[1])
        /\ \A i \in DOMAIN cwire[1].children :
              /\ NoZeroLeafAt(cwire[1].children[i])
              /\ \A j \in DOMAIN cwire[1].children[i].children :
                    NoZeroLeafAt(cwire[1].children[i].children[j])

\* an entry was decoded into the contact cin[1].into
Unmarshalled == cpc = "out" /\ cout[1].op = "Unmarshal"

\* the entry carries a category element whose term is the contact term
HasContactTerm(el) ==
    \E i \in DOMAIN el.children :
        /\ el.children[i].name.local = "category"
        /\ AttrVal(el.children[i], "term") = contactTerm

\* C14: decoding an entry whose category term is absent or is not the contact
\* term fails and leaves every field of the target contact as it was; decoding
\* an entry that carries the contact term does not fail.
C14_CategoryGuard ==
    Unmarshalled =>
        IF HasContactTerm(cin[1].v)
        THEN cout[1].v.ok
        ELSE ~cout[1].v.ok /\ cout[1].v.c = cin[1].into

C14_Witness ==
    /\ Unmarshalled
    /\ cin[1].v = GroupEntry
    /\ cin[1].into # ZeroContactKind
    /\ ~cout[1].v.ok
    /\ cout[1].v.c = cin[1].into

\* c with the fields only the server sets put back to their zero values
WithoutServerFields(c) ==
    [c EXCEPT !.id = <<>>, !.etag = "", !.updated = <<>>, !.deleted = FALSE,
              !.editLink = "", !.selfLink = "", !.photoLink = ""]

\* names of the elements and attributes that carry server-managed fields
ServerNames == {"id", "updated", "link", "deleted", "etag", "gd:etag"}

\* e has no attribute and no child named after a server-managed field
NoServerNames(e) ==
    /\ \A i \in DOMAIN e.attrs : e.attrs[i].name.local \notin ServerNames
    /\ \A i \in DOMAIN e.children : e.children[i].name.local \notin ServerNames

\* C15: the encoded entry carries nothing of the id, version tag, updated
\* time, links and deleted flag of the contact: it is the entry the same
\* contact encodes to once these fields are cleared, and it has no element or
\* attribute that stands for one of them.
C15_ServerFieldsNotEncoded ==
    Encoded =>
        /\ cwire[1] = MarshalContactKind(WithoutServerFields(cin[1].v), cin[1].order)
        /\ NoServerNames(cwire[1])

C15_Witness ==
    /\ Encoded
    /\ cin[1].v.id = <<"c1">>
    /\ cin[1].v.etag = "e1"
    /\ cin[1].v.deleted
    /\ cin[1].v.editLink # ""
    /\ cin[1].v.Email = <<Email1, Email2>>
    /\ Len(ChildrenOf(cwire[1], "email")) = 2

\* WithTextQuery was applied to the terms cin[1].v
Queried == cpc = "out" /\ cout[1].op = "WithTextQuery"

\* the value of the parameter "q" in the parameter set v
QueryText(v) == (CHOOSE x \in v : x.key = "q").value

\* the word of a term: the term without its leading '-'
WordOf(t) == IF Head(t) = "-" THEN Tail(t) ELSE t

\* w occurs in q as a run of consecutive characters
Occurs(w, q) ==
    \E i \in 1..(Len(q) - Len(w) + 1) : SubSeq(q, i, i + Len(w) - 1) = w

\* C16 (as claimed): the parameter "q" holds every supplied term, an excluded
\* term with its '-' in front; no term is dropped.
C16_TextQueryKeepsTerms ==
    Queried =>
        \A i \in DOMAIN cin[1].v : Occurs(WordOf(cin[1].v[i]), QueryText(cout[1].v))

(***************************************************************************)
(* Properties of the service under cancellation and between calls          *)
(***************************************************************************)
\* a ListContacts call whose context is done has returned
CancelledListReturned == call.op = "List" /\ cancelled /\ pc = "done"

\* C18 (as claimed): once the context is cancelled during a traversal,
\* ListContacts returns an error, never a result.
C18_CancelledListFails == CancelledListReturned => ret.err # NoError

\* a step of a cancelled traversal that waits for the transport: it returns an
\* error and no contacts
FailsPending ==
    (cancelled /\ pc = "list") =>
        pc' = "done" /\ ret'.err # NoError /\ ret'.contacts = <<>> /\ ret'.st = <<>>

\* C18 (amended): from the moment the context of a ListContacts call is done no
\* further request reaches the remote service, and a traversal that still has
\* a page request pending or to issue returns an error and no contacts.
C18_CancelStopsTraversal ==
    [][(call'.op = "List" /\ cancelled') => (wire' = wire /\ FailsPending)]_vars

C18_Witness ==
    /\ CancelledListReturned
    /\ Len(reqs) = 2
    /\ Len(wire) = 1
    /\ Len(resps) = 2
    /\ ~resps[1].failed
    /\ ret = Result(<<>>, <<>>, <<>>, Error("transport", 0))

\* href of the first link of the page whose rel is "next" ("" when none)
NextLinkOf(root) ==
    LET m == SelectSeq(root.children,
                       LAMBDA e : e.name.local = "link" /\ AttrVal(e, "rel") = "next")
    IN  IF m = <<>> THEN "" ELSE AttrVal(m[1], "href")

\* request i of the traversal follows the "next" link of the page answered to
\* request i - 1, verbatim and without a precondition
FollowsNextLink(i) ==
    /\ reqs[i].method = "GET"
    /\ NextLinkOf(resps[i - 1].body.root) # ""
    /\ reqs[i].url = URL(NextLinkOf(resps[i - 1].body.root), {})
    /\ ~HasHeader(reqs[i], "If-None-Match")

\* C19 (as claimed): every follow-up page request of ListContacts is a GET to
\* exactly the href of the previous page's "next" link, with no query
\* parameter of the call re-applied and without If-None-Match.
C19_FollowUpRequests ==
    call.op = "List" => \A i \in 2..Len(reqs) : FollowsNextLink(i)

(***************************************************************************)
(* Number of exchanges of the single-entry operations                      *)
(***************************************************************************)
SingleEntryOps == {"Create", "Get", "Update", "Delete"}

RequestLimit(op) == IF op \in {"Create", "Get"} THEN 1 ELSE 2

\* response i answers the GET of getContact
AnswersGet(i) == call.op = "Get" \/ (call.op \in {"Update", "Delete"} /\ i = 1)

\* the body of response i is handed to the decoder and the decoder fails
DecodeFailure(i) ==
    /\ ~resps[i].failed
    /\ \/ AnswersGet(i) /\ resps[i].status # StatusNotModified
       \/ call.op = "Create" /\ resps[i].status = StatusCreated
       \/ call.op = "Update" /\ i = 2 /\ resps[i].status = StatusOK
    /\ ~DecodeContact(resps[i].body).ok

\* response i carries a status the operation refuses
CheckedStatusFailure(i) ==
    /\ ~resps[i].failed
    /\ \/ call.op = "Create" /\ resps[i].status # StatusCreated
       \/ call.op = "Update" /\ i = 2 /\ resps[i].status # StatusOK

\* response i carries an error status, whichever request it answers
AnyStatusFailure(i) == ~resps[i].failed /\ resps[i].status >= StatusBadRequest

\* the call stopped at exchange i and returned an error
FailedAt(i) == Len(reqs) = i /\ pc = "done" /\ ret.err # NoError /\ ~ret.panicked

\* the preliminary GET was answered with a document that decoded
GetDecoded == ~resps[1].failed /\ DecodeContact(resps[1].body).ok

\* C20 (as claimed): CreateContact and GetContact issue at most one request,
\* UpdateContact and DeleteContact at most two, the second only after the GET
\* succeeded and decoded; after any transport, status or decode failure no
\* further request is issued and the failure is returned.
C20_NoRetryAnyFailure ==
    call.op \in SingleEntryOps =>
        /\ Len(reqs) <= RequestLimit(call.op)
        /\ Len(reqs) = 2 => (GetDecoded /\ resps[1].status = StatusOK)
        /\ \A i \in 1..Len(resps) :
              (resps[i].failed \/ AnyStatusFailure(i) \/ DecodeFailure(i)) => FailedAt(i)

\* C20 (amended): same bounds on the number of requests; the second request
\* is issued only after the GET was answered (not with 304) by a document
\* that decoded and passed the version check; after a transport failure, a
\* decode failure or a status the operation checks (Create: not 201, the PUT
\* of Update: not 200) no further request is issued and an error is returned.
C20_NoRetry ==
    call.op \in SingleEntryOps =>
        /\ Len(reqs) <= RequestLimit(call.op)
        /\ Len(reqs) = 2 =>
              /\ GetDecoded
              /\ resps[1].status # StatusNotModified
              /\ ~etagMismatch(DecodeContact(resps[1].body).c.etag, call.etag)
        /\ \A i \in 1..Len(resps) :
              (resps[i].failed \/ CheckedStatusFailure(i) \/ DecodeFailure(i)) => FailedAt(i)

\* an UpdateContact whose PUT was refused with 500 after a GET that passed
C20_Witness ==
    /\ call.op = "Update"
    /\ pc = "done"
    /\ Len(reqs) = 2
    /\ Len(resps) = 2
    /\ resps[2] = Response(500, XMLBody(Entry1))
    /\ ret = Result(<<>>, <<>>, <<>>, Error("status", 500))

(***************************************************************************)
(* Concurrent calls on one service                                         *)
(***************************************************************************)
\* the first request of the call c on the service s
FirstRequest(s, c) ==
    CASE c.op = "Create" -> CreateRequest(s, c.p[1], c.order)
      [] c.op = "Get"    -> getContactRequest(s, c.id, c.projection, c.etag)
      [] c.op = "Update" -> getContactRequest(s, c.id, "full", "")
      [] c.op = "Delete" -> getContactRequest(s, c.id, "thin", "")
      [] c.op = "List"   -> ListRequest(s, c.projection, c.etag, c.queries)

\* a run so far: the requests sent, whether the call returned, and what
Running(sent) == [reqs |-> sent, done |-> FALSE, ret |-> NoResult]

Returned(sent, r) == [reqs |-> sent, done |-> TRUE, ret |-> r]

\* CreateContact / GetContact alone, answered by rs
AloneOne(c, sent, rs) ==
    IF rs = <<>> THEN Running(sent)
    ELSE Returned(sent, IF c.op = "Create" THEN CreateResult(rs[1])
                        ELSE getContactResult(rs[1]))

\* UpdateContact / DeleteContact alone once the GET returned g
AloneSecond(c, sent, rs, g, second) ==
    IF g.err # NoError THEN Returned(sent, Result(<<>>, <<>>, <<>>, g.err))
    ELSE IF g.contact = <<>> THEN Returned(sent, Panicked)
    ELSE IF etagMismatch(g.contact[1].etag, c.etag)
    THEN Returned(sent, Result(<<>>, <<>>, <<>>, Error("etag not match", 0)))
    ELSE IF Len(rs) < 2 THEN Running(Append(sent, RoundTrip(second)))
    ELSE Returned(Append(sent, RoundTrip(second)),
                  IF c.op = "Update" THEN UpdateResult(rs[2]) ELSE DeleteResult(rs[2]))

\* the PUT or DELETE that follows a GET which returned g
SecondRequest(c, g) ==
    IF g.contact = <<>> THEN NewRequest("", URL("", {}), NoBody)
    ELSE IF c.op = "Update" THEN UpdateRequest(g.contact[1], c.etag, c.p[1], c.order)
    ELSE DeleteRequest(g.contact[1], c.etag)

AloneTwo(c, sent, rs) ==
    IF rs = <<>> THEN Running(sent)
    ELSE AloneSecond(c, sent, rs, getContactResult(rs[1]),
                     SecondRequest(c, getContactResult(rs[1])))

\* ListContacts alone from page i on: req is the loop variable, r the
\* contacts gathered, sent the requests so far
RECURSIVE AloneList(_, _, _, _, _)
AloneListLooped(f, nr, r, sent, rs, i) ==
    IF nr = <<>> THEN Returned(sent, Result(<<>>, <<r>>, <<QueryStatus(f)>>, NoError))
    ELSE AloneList(nr, r, Append(sent, RoundTrip(nr[1])), rs, i + 1)

AloneListDecoded(d, req, r, sent, rs, i) ==
    IF ~d.ok THEN Returned(sent, Result(<<>>, <<>>, <<>>, Error("decode", 0)))
    ELSE AloneListLooped(d.f, NextRequest(d.f.Links, req),
                         AppendClones(r, d.f.Contacts), sent, rs, i)

AloneList(req, r, sent, rs, i) ==
    IF i > Len(rs) THEN Running(sent)
    ELSE IF rs[i].failed
    THEN Returned(sent, Result(<<>>, <<>>, <<>>, Error("transport", 0)))
    ELSE AloneListDecoded(DecodeFeed(rs[i].body), req, r, sent, rs, i)

\* the call c running alone on the service s with the responses rs
Alone(s, c, rs) ==
    IF c.op \in {"Create", "Get"} THEN AloneOne(c, <<RoundTrip(FirstRequest(s, c))>>, rs)
    ELSE IF c.op \in {"Update", "Delete"}
    THEN AloneTwo(c, <<RoundTrip(FirstRequest(s, c))>>, rs)
    ELSE AloneList(<<FirstRequest(s, c)>>, <<>>, <<RoundTrip(FirstRequest(s, c))>>, rs, 1)

\* the call with the local state l did what the run `alone` does
SameAs(l, alone) ==
    /\ l.reqs = alone.reqs
    /\ l.wire = alone.reqs
    /\ (l.pc = "done") = alone.done
    /\ alone.done => l.ret = alone.ret

AsIfAlone(l) == l.call.op # "none" => SameAs(l, Alone(svc, l.call, l.resps))

\* C17: no call writes a field of the service, and under any interleaving of
\* two calls on one service each of them issues the requests and returns the
\* result of a run alone with the same responses.
C17_ConcurrentUse ==
    /\ [][svc' = svc]_vars
    /\ [](AsIfAlone(Local) /\ AsIfAlone(parked))

\* two calls in flight on one service, interleaved: a ListContacts that has
\* sent its second page request and a GetContact of the thin projection
\* that returned in between
C17_Witness ==
    /\ call.op = "List"
    /\ pc = "list"
    /\ Len(reqs) = 2
    /\ parked.call.op = "Get"
    /\ parked.call.projection = "thin"
    /\ parked.pc = "done"
    /\ parked.ret.contact # <<>>
    /\ svc.projection = "full"

(***************************************************************************)
(* The first page request of ListContacts (checked under SpecContact)      *)
(***************************************************************************)
FirstPageBuilt == cpc = "out" /\ cout[1].op = "ListContacts"

\* the keys of the query parameters of a request
QueryKeys(req) == {x.key : x \in req.url.query}

\* C21: the first page request of ListContacts carries strict=true whenever
\* at least one option function is supplied, whichever options and in
\* whatever order; with no option its URL has no query parameter at all.
C21_StrictWithOptions ==
    FirstPageBuilt =>
        IF cin[1].queries # <<>>
        THEN [key |-> "strict", value |-> "true"] \in cout[1].v.url.query
        ELSE cout[1].v.url.query = {}

\* two options, a text query then a sort order: strict=true travels with the
\* four parameters they set
C21_Witness ==
    /\ FirstPageBuilt
    /\ Len(cin[1].queries) = 2
    /\ cin[1].queries[1].name = "WithTextQuery"
    /\ cin[1].queries[2].name = "WithSort"
    /\ QueryKeys(cout[1].v) = {"strict", "q", "orderby", "sortorder"}
    /\ cout[1].v.method = "GET"

(***************************************************************************)
(* The preliminary GET of UpdateContact and DeleteContact (under Spec)     *)
(***************************************************************************)
\* C22 (as claimed): UpdateContact and DeleteContact return a result or an
\* error whatever the answer to their preliminary GET, a 304 included; they
\* never read the version tag or the edit link of an absent contact.
C22_NoAbsentContactRead ==
    (call.op \in {"Update", "Delete"} /\ pc = "done") => ~ret.panicked

(***************************************************************************)
(* Failures during a ListContacts traversal (under Spec)                   *)
(***************************************************************************)
\* the exchange for the last page asked for failed: transport or decode
ExchangeFailed ==
    /\ Len(resps) >= 1
    /\ resps[Len(resps)].failed \/ ~DecodeFeed(resps[Len(resps)].body).ok

\* the last page received names a next page no request can be built for
NextRequestFailed ==
    /\ Len(resps) >= 1
    /\ ~resps[Len(resps)].failed
    /\ DecodeFeed(resps[Len(resps)].body).ok
    /\ NextLinkOf(resps[Len(resps)].body.root) = BadHref

\* ListContacts returned an error and nothing else
NothingReturned ==
    pc = "done" /\ ret.err # NoError /\ ret.contacts = <<>> /\ ret.st = <<>>

\* C23 (as claimed): ListContacts is all-or-nothing: when the request or the
\* decode of a page of the traversal fails, it returns an error with nil
\* contacts and nil QueryStatus, and no contact of the earlier pages.
C23_AllOrNothing ==
    (call.op = "List" /\ (ExchangeFailed \/ NextRequestFailed)) => NothingReturned

====
